---- MODULE Spec2Model ----
(***************************************************************************)
(* Model of one call of sim_bursty_oscillation_features                    *)
(* (neurodsp/sim/periodic.py) and of the helpers it calls: _make_is_osc,   *)
(* _determine_cycle_properties and _sim_cycles.                            *)
(*                                                                         *)
(* Numbers.  Floats (period, amp, rdsym and the feature means and          *)
(* standard deviations) are fixed-point integers in units of 1/Den, so     *)
(* the real 0.5 is Den \div 2 and the real 1 is Den.  Integers of the code *)
(* (stored periods, sample counts, indices) are plain integers.  A draw    *)
(* of randn() is an integer z in -ZMax..ZMax; a draw of rand() is u/UDen   *)
(* with u in 0..UDen-1, the half-open interval [0, 1) of numpy's rand.     *)
(* Probabilities (enter_burst, leave_burst) are in units of 1/UDen.        *)
(* Sequences are 1-based: slot ii of the code is element ii+1 here.        *)
(*                                                                         *)
(* A sample of the signal is modelled by where it comes from (its kind     *)
(* and the table row that emitted it), not by its floating-point value.    *)
(***************************************************************************)
EXTENDS Integers, Sequences, FiniteSets

\* ---------------------------------------------------------------- bounds

\* Resolution of the fixed-point floats: one unit is 1/Den.
Den == 4
\* Resolution of rand() and of the probabilities: one unit is 1/UDen.
UDen == 2
\* randn() is drawn from -ZMax..ZMax.
ZMax == 1
\* n_tries is drawn from 1..MaxTries.
MaxTries == 2

\* ---------------------------------------------------------------- inputs

\* Durations, sampling rates and frequencies of the calls explored
\* (n_seconds > 0, fs >= freq > 0).
NSecondsValues == {1}
FsValues == {12, 15}
FreqValues == {1, 2}

\* The pairs (enter_burst, leave_burst) of the calls explored, in units of
\* 1/UDen: always enter and never leave, enter with some chance and never
\* leave, and never enter.
BurstProbabilities ==
    { << UDen, 0 >>, << UDen \div 2, 0 >>, << 0, UDen >> }

\* The rdsym argument of the call (default .5).
RdsymValues == {Den \div 2}

\* The not-a-number float (np.nan): a value outside every range the model
\* computes with.  Comparisons with it are made through Lt and Gt.
NaN == 0 - 1000000

IsNaN(x) == x = NaN

\* x < y and x > y on floats: False when either side is nan.
Lt(x, y) == ~IsNaN(x) /\ ~IsNaN(y) /\ x < y
Gt(x, y) == ~IsNaN(x) /\ ~IsNaN(y) /\ x > y

\* cycle_features dictionaries passed by the caller: partial overrides of
\* the nine features, as functions from the keys given to their values.
NoOverride == [k \in {} |-> 0]

CycleFeatureInputs ==
    { NoOverride,
      [k \in {"period_mean"} |-> Den \div 2],
      [k \in {"period_mean"} |-> 2 * Den],
      [k \in {"period_mean", "period_std"} |-> 6 * Den],
      [k \in {"period_mean", "period_std"} |->
          IF k = "period_mean" THEN 2 * Den ELSE 6 * Den],
      [k \in {"period_burst_std"} |-> 6 * Den],
      [k \in {"amp_mean"} |-> 0],
      [k \in {"amp_mean"} |-> 0 - Den],
      [k \in {"amp_std"} |-> Den],
      [k \in {"rdsym_mean"} |-> Den],
      [k \in {"rdsym_burst_std"} |-> Den \div 4] }

\* ---------------------------------------------------------------- helpers

Min(a, b) == IF a <= b THEN a ELSE b
Max(a, b) == IF a >= b THEN a ELSE b

\* int(x) of a float x (fixed-point, units of 1/Den): truncation toward 0.
IntOfFloat(x) == IF x >= 0 THEN x \div Den ELSE 0 - ((0 - x) \div Den)

\* int(p / 4) of an integer p: true division, then truncation toward 0.
IntQuarter(p) == IF p >= 0 THEN p \div 4 ELSE 0 - ((0 - p) \div 4)

\* int(np.ceil(a / b * 2)) for integers a >= 0, b > 0.
CeilTwice(a, b) == (2 * a + b - 1) \div b

\* int(np.round(p * r)) for an integer p >= 0 and a float r >= 0 given in
\* units of 1/Den: numpy rounds halves to the even integer.
RoundHalfEven(num, den) ==
    LET q == num \div den
        rem == num % den
    IN  IF 2 * rem < den THEN q
        ELSE IF 2 * rem > den THEN q + 1
        ELSE IF q % 2 = 0 THEN q ELSE q + 1

\* randn(): the draws explored.
Randn == (0 - ZMax)..ZMax

\* rand(): the draws explored, in units of 1/UDen; 0 is included, 1 is not.
Rand == 0..(UDen - 1)

\* ---------------------------------------------------------------- state

VARIABLES
    n_samples,            \* int(n_seconds * fs)
    mean_period_samples,  \* int(fs / freq)
    cycle_features_use,   \* the nine features after the overrides
    enter_burst,
    leave_burst,
    n_tries,
    pc,                   \* position in the call
    is_oscillating,       \* _make_is_osc: the flags filled so far
    ind,                  \* _determine_cycle_properties / _sim_cycles: slot
    cur_burst,            \* burst-level means
    n_try,                \* attempts made for the current oscillating slot
    period, amp, rdsym,   \* locals of _determine_cycle_properties (floats)
    periods, amps, rdsyms,\* arrays filled by _determine_cycle_properties
    burst_draws,          \* number of times the burst-level means were drawn
    df_full,              \* the table after line 232 (before the filter)
    df,                   \* the table after line 233
    sig,                  \* _sim_cycles: samples emitted so far
    last_cycle_oscillating,
    err,                  \* the exception the call ended in, or "none"
    features_invalid,     \* the features named by the invalid-feature error
    result                \* what the call returned

vars == << n_samples, mean_period_samples, cycle_features_use, enter_burst,
           leave_burst, n_tries, pc, is_oscillating, ind,
           cur_burst, n_try, period, amp, rdsym, periods, amps, rdsyms,
           burst_draws, df_full, df, sig, last_cycle_oscillating, err,
           features_invalid, result >>

FeatureKeys == {"amp_mean", "amp_burst_std", "amp_std",
                "period_mean", "period_burst_std", "period_std",
                "rdsym_mean", "rdsym_burst_std", "rdsym_std"}

\* The default cycle features (lines 211-214).
DefaultFeatures(mps, rdsym_arg) ==
    [k \in FeatureKeys |->
        CASE k = "amp_mean" -> Den
          [] k = "period_mean" -> mps * Den
          [] k = "rdsym_mean" -> rdsym_arg
          [] OTHER -> 0]

\* The defaults overwritten with the caller's cycle_features (lines 217-219).
OverwriteFeatures(defaults, cycle_features) ==
    [k \in FeatureKeys |->
        IF k \in DOMAIN cycle_features THEN cycle_features[k] ELSE defaults[k]]

\* The number of slots of the table (line 223).
n_cycles_overestimate == CeilTwice(n_samples, mean_period_samples)

NoBurst == [period_mean |-> NaN, amp_mean |-> NaN, rdsym_mean |-> NaN]

NoResult == [returned |-> FALSE, sig |-> << >>, with_df |-> FALSE, df |-> << >>]

\* The call is entered: the arguments are bound, lines 211-223 have run and
\* _make_is_osc has set is_oscillating[0] = False (lines 252-253).
Init ==
    /\ \E n_seconds \in NSecondsValues, fs \in FsValues, freq \in FreqValues,
          rdsym_arg \in RdsymValues, cycle_features \in CycleFeatureInputs :
          /\ freq <= fs
          /\ n_samples = n_seconds * fs
          /\ mean_period_samples = fs \div freq
          /\ cycle_features_use =
                OverwriteFeatures(DefaultFeatures(fs \div freq, rdsym_arg),
                                  cycle_features)
    /\ \E probs \in BurstProbabilities :
          /\ enter_burst = probs[1]
          /\ leave_burst = probs[2]
    /\ n_tries \in 1..MaxTries
    /\ pc = "make_is_osc"
    /\ is_oscillating = << FALSE >>
    /\ ind = 1
    /\ cur_burst = NoBurst
    /\ n_try = 0
    /\ period = 0 /\ amp = 0 /\ rdsym = 0
    /\ periods = << >> /\ amps = << >> /\ rdsyms = << >>
    /\ burst_draws = 0
    /\ df_full = << >>
    /\ df = << >>
    /\ sig = << >>
    /\ last_cycle_oscillating = FALSE
    /\ err = "none"
    /\ features_invalid = {}
    /\ result = NoResult

\* ---------------------------------------------------------------- _make_is_osc

\* The flag of one slot given the previous flag and the draw (lines 259-262).
NextIsOsc(prev, rand_num) ==
    IF prev THEN rand_num > leave_burst ELSE rand_num < enter_burst

\* One iteration of the loop of _make_is_osc (lines 255-262).
MakeIsOscStep ==
    /\ pc = "make_is_osc"
    /\ Len(is_oscillating) < n_cycles_overestimate
    /\ \E rand_num \in Rand :
          is_oscillating' =
              Append(is_oscillating,
                     NextIsOsc(is_oscillating[Len(is_oscillating)], rand_num))
    /\ UNCHANGED << n_samples, mean_period_samples, cycle_features_use,
                    enter_burst, leave_burst, n_tries, pc,
                    ind, cur_burst, n_try, period, amp, rdsym, periods, amps,
                    rdsyms, burst_draws, df_full, df, sig,
                    last_cycle_oscillating, err, features_invalid, result >>

\* _make_is_osc returns (line 264) and _determine_cycle_properties starts.
MakeIsOscReturn ==
    /\ pc = "make_is_osc"
    /\ Len(is_oscillating) >= n_cycles_overestimate
    /\ pc' = "determine"
    /\ ind' = 1
    /\ UNCHANGED << n_samples, mean_period_samples, cycle_features_use,
                    enter_burst, leave_burst, n_tries,
                    is_oscillating, cur_burst, n_try, period, amp, rdsym,
                    periods, amps, rdsyms, burst_draws, df_full, df, sig,
                    last_cycle_oscillating, err, features_invalid, result >>

\* ---------------------------------------------------------------- _determine_cycle_properties

\* The validity test without its upper bound on rdsym.
FeaturesValid_NoUpperBound(p, a, r) == p > 0 /\ a > 0 /\ r > 0

\* The validity test of one attempt (line 303).
FeaturesValid(p, a, r) == p > 0 /\ a > 0 /\ r > 0 /\ r < Den

\* The value of the local variable a label names (eval(label), line 310),
\* as line 309 intends it and as interpreters that evaluate the
\* comprehension in the function's own scope compute it.
EvalLabel(label, p, a, r) ==
    CASE label = "period" -> p
      [] label = "amp" -> a
      [] label = "rdsym" -> r

\* The features the error names (lines 310-311): those below 0, and rdsym
\* above 1.
FeaturesInvalid(p, a, r) ==
    LET below == { label \in {"period", "amp", "rdsym"} :
                      Lt(EvalLabel(label, p, a, r), 0) }
    IN  IF Gt(r, Den) THEN below \cup {"rdsym"} ELSE below

\* A feature value: mean + randn() * std (lines 278, 288-293, 299-301).
DrawFeature(mean, z, std) == mean + z * std

\* The period stored in the integer array periods (line 318).
StoredPeriod(p) == IntOfFloat(p)

\* The position after slot ind has been stored: the next slot, or the
\* return of the three arrays (line 322) to line 229.
AfterSlot ==
    /\ ind' = ind + 1
    /\ pc' = IF ind + 1 > Len(is_oscillating) THEN "table" ELSE "determine"

\* A non-oscillating slot that leaves the burst-level means as they are.
ResetBurst_Keep(burst) == burst

\* cur_burst after a non-oscillating slot (line 282).
ResetBurst(burst) == NoBurst

\* A non-oscillating slot (lines 277-282 and 318-320).
DetermineNotOsc ==
    /\ pc = "determine"
    /\ ind <= Len(is_oscillating)
    /\ is_oscillating[ind] = FALSE
    /\ \E z \in Randn :
          /\ period' = DrawFeature(cycle_features_use["period_mean"], z,
                                   cycle_features_use["period_std"])
          /\ periods' = Append(periods, StoredPeriod(period'))
    /\ amp' = NaN
    /\ rdsym' = NaN
    /\ cur_burst' = ResetBurst(cur_burst)
    /\ amps' = Append(amps, NaN)
    /\ rdsyms' = Append(rdsyms, NaN)
    /\ AfterSlot
    /\ UNCHANGED << n_samples, mean_period_samples, cycle_features_use,
                    enter_burst, leave_burst, n_tries,
                    is_oscillating, n_try, burst_draws, df_full, df, sig,
                    last_cycle_oscillating, err, features_invalid, result >>

\* The first oscillating slot of a burst draws the burst-level means
\* (lines 286-293).
DrawBurstMeans ==
    /\ pc = "determine"
    /\ ind <= Len(is_oscillating)
    /\ is_oscillating[ind] = TRUE
    /\ IsNaN(cur_burst["period_mean"])
    /\ \E zp \in Randn, za \in Randn, zr \in Randn :
          cur_burst' =
             [period_mean |-> DrawFeature(cycle_features_use["period_mean"], zp,
                                          cycle_features_use["period_burst_std"]),
              amp_mean |-> DrawFeature(cycle_features_use["amp_mean"], za,
                                       cycle_features_use["amp_burst_std"]),
              rdsym_mean |-> DrawFeature(cycle_features_use["rdsym_mean"], zr,
                                         cycle_features_use["rdsym_burst_std"])]
    /\ burst_draws' = burst_draws + 1
    /\ UNCHANGED << n_samples, mean_period_samples, cycle_features_use,
                    enter_burst, leave_burst, n_tries, pc,
                    is_oscillating, ind, n_try, period, amp, rdsym, periods,
                    amps, rdsyms, df_full, df, sig, last_cycle_oscillating,
                    err, features_invalid, result >>

\* Whether the retry loop runs another attempt (for n_try in range(n_tries),
\* line 297).
MayTry == n_try < n_tries

\* One attempt of the retry loop of an oscillating slot (lines 297-304); a
\* valid attempt is stored (lines 318-320), and the attempt that exhausts
\* the loop raises (lines 307-316).
Attempt ==
    /\ pc = "determine"
    /\ ind <= Len(is_oscillating)
    /\ is_oscillating[ind] = TRUE
    /\ ~IsNaN(cur_burst["period_mean"])
    /\ MayTry
    /\ \E zp \in Randn, za \in Randn, zr \in Randn :
          /\ period' = DrawFeature(cur_burst["period_mean"], zp,
                                   cycle_features_use["period_std"])
          /\ amp' = DrawFeature(cur_burst["amp_mean"], za,
                                cycle_features_use["amp_std"])
          /\ rdsym' = DrawFeature(cur_burst["rdsym_mean"], zr,
                                  cycle_features_use["rdsym_std"])
    /\ IF FeaturesValid(period', amp', rdsym')
       THEN /\ periods' = Append(periods, StoredPeriod(period'))
            /\ amps' = Append(amps, amp')
            /\ rdsyms' = Append(rdsyms, rdsym')
            /\ n_try' = 0
            /\ AfterSlot
            /\ UNCHANGED << err, features_invalid >>
       ELSE /\ n_try' = n_try + 1
            /\ UNCHANGED << periods, amps, rdsyms, ind >>
            /\ IF n_try + 1 < n_tries
               THEN UNCHANGED << pc, err, features_invalid >>
               ELSE /\ pc' = "error"
                    /\ err' = "invalid_features"
                    /\ features_invalid' = FeaturesInvalid(period', amp', rdsym')
    /\ UNCHANGED << n_samples, mean_period_samples, cycle_features_use,
                    enter_burst, leave_burst, n_tries,
                    is_oscillating, cur_burst, burst_draws, df_full, df, sig,
                    last_cycle_oscillating, result >>

\* ---------------------------------------------------------------- the table

\* df['period'].cumsum().values: element k is the sum of the first k periods.
RECURSIVE Cumsum(_)
Cumsum(s) ==
    IF Len(s) = 0 THEN << >>
    ELSE LET head == Cumsum(SubSeq(s, 1, Len(s) - 1))
         IN  Append(head, (IF Len(head) = 0 THEN 0 ELSE head[Len(head)])
                          + s[Len(s)])

\* np.insert(cumsum[:-1], 0, 0): the start_sample column (line 232).
StartSamples(ps) ==
    << 0 >> \o SubSeq(Cumsum(ps), 1, Len(ps) - 1)

\* The data frame of lines 230-232; index is the row's label.
MakeTable(flags, ps, as, rs) ==
    [k \in 1..Len(flags) |->
        [index |-> k, is_cycle |-> flags[k], period |-> ps[k], amp |-> as[k],
         rdsym |-> rs[k], start_sample |-> StartSamples(ps)[k]]]

\* The rows a boolean mask on start_sample keeps (line 233).
KeepRow(row) == row.start_sample < n_samples

FilterTable(table) == SelectSeq(table, KeepRow)

\* Lines 230-232: the table with its start_sample column.
BuildTable ==
    /\ pc = "table"
    /\ df_full' = MakeTable(is_oscillating, periods, amps, rdsyms)
    /\ pc' = "filter"
    /\ UNCHANGED << n_samples, mean_period_samples, cycle_features_use,
                    enter_burst, leave_burst, n_tries,
                    is_oscillating, ind, cur_burst, n_try, period, amp, rdsym,
                    periods, amps, rdsyms, burst_draws, df, sig,
                    last_cycle_oscillating, err, features_invalid, result >>

\* Line 233, and the entry of _sim_cycles (lines 328-329).
TruncateTable ==
    /\ pc = "filter"
    /\ df' = FilterTable(df_full)
    /\ pc' = "sim_cycles"
    /\ ind' = 1
    /\ sig' = << >>
    /\ last_cycle_oscillating' = FALSE
    /\ UNCHANGED << n_samples, mean_period_samples, cycle_features_use,
                    enter_burst, leave_burst, n_tries,
                    is_oscillating, cur_burst, n_try, period, amp, rdsym,
                    periods, amps, rdsyms, burst_draws, df_full, err,
                    features_invalid, result >>

\* ---------------------------------------------------------------- _sim_cycles

\* n samples of one kind emitted for one row.
Samples(kind, row, n) == [i \in 1..n |-> [kind |-> kind, row |-> row.index]]

\* Length of the burst-entry rise: np.linspace(-pi/2, 0, int(period/4))[1:]
\* (line 357), for int(period/4) >= 0.
RiseLen(p) == Max(0, IntQuarter(p) - 1)

\* Length of the burst-exit decay: np.linspace(0, pi/2, int(period/4))
\* (line 337), for int(period/4) >= 0.
DecayLen(p) == IntQuarter(p)

\* rise_samples of the cycle body (line 364).
RiseSamples(row) == RoundHalfEven(row.period * row.rdsym, Den)

\* decay_samples of the cycle body (line 365).
DecaySamples(row) == row.period - RiseSamples(row)

\* np.linspace(a, b, n + 1)[1:] has n points for n >= 0 and none for n = -1.
LinspaceTail(n) == Max(0, n)

\* sig[-len(rise_t):] = rise_t (line 361): the slice is the last
\* min(len(rise_t), len(sig)) samples; a rise of another length fits it
\* only by broadcasting, that is when it holds exactly one sample.
RiseFits(s, n) == n <= Len(s) \/ n = 1

\* A rise appended to the signal instead of written over its tail.
OverwriteTail_Append(s, row, n) == s \o Samples("rise", row, n)

OverwriteTail(s, row, n) ==
    LET m == Min(n, Len(s))
    IN  SubSeq(s, 1, Len(s) - m) \o Samples("rise", row, m)

\* The exception processing one row raises, or "none".
RowError(s, last_osc, row) ==
    IF row.is_cycle = FALSE
    THEN IF last_osc
         THEN IF IntQuarter(row.period) < 0 THEN "negative_dimensions"
              ELSE IF Len(s) = 0 THEN "index_error"
              ELSE IF row.period - IntQuarter(row.period) < 0
                   THEN "negative_dimensions"
              ELSE "none"
         ELSE IF row.period < 0 THEN "negative_dimensions" ELSE "none"
    ELSE IF ~last_osc /\ IntQuarter(row.period) < 0 THEN "negative_dimensions"
         ELSE IF ~last_osc /\ RiseLen(row.period) > 0
                 /\ ~RiseFits(s, RiseLen(row.period)) THEN "broadcast"
         ELSE IF RiseSamples(row) + 1 < 0 \/ DecaySamples(row) + 1 < 0
              THEN "negative_dimensions"
         ELSE IF last_osc /\ Len(s) = 0 THEN "index_error"
         ELSE "none"

\* The signal after one row that raises nothing (lines 333-382).
RowSignal(s, last_osc, row) ==
    IF row.is_cycle = FALSE
    THEN IF last_osc
         THEN s \o Samples("decay", row, DecayLen(row.period))
                \o Samples("zero", row, row.period - IntQuarter(row.period))
         ELSE s \o Samples("zero", row, row.period)
    ELSE LET risen == IF ~last_osc /\ RiseLen(row.period) > 0
                      THEN OverwriteTail(s, row, RiseLen(row.period))
                      ELSE s
         IN  risen \o Samples("cycle", row,
                              LinspaceTail(DecaySamples(row))
                              + LinspaceTail(RiseSamples(row)))

\* One iteration of the loop of _sim_cycles (lines 331-382).
SimCyclesRow ==
    /\ pc = "sim_cycles"
    /\ ind <= Len(df)
    /\ LET row == df[ind]
           e == RowError(sig, last_cycle_oscillating, row)
       IN  IF e = "none"
           THEN /\ sig' = RowSignal(sig, last_cycle_oscillating, row)
                /\ last_cycle_oscillating' = row.is_cycle
                /\ ind' = ind + 1
                /\ UNCHANGED << pc, err >>
           ELSE /\ pc' = "error"
                /\ err' = e
                /\ UNCHANGED << sig, last_cycle_oscillating, ind >>
    /\ UNCHANGED << n_samples, mean_period_samples, cycle_features_use,
                    enter_burst, leave_burst, n_tries,
                    is_oscillating, cur_burst, n_try, period, amp, rdsym,
                    periods, amps, rdsyms, burst_draws, df_full, df,
                    features_invalid, result >>

\* sig[:n_samples] (line 237).
TruncateSignal(s) == SubSeq(s, 1, Min(n_samples, Len(s)))

\* The table without its last row (line 241).
DropLast(table) == SubSeq(table, 1, Len(table) - 1)

\* _sim_cycles returns (line 384); the signal is truncated and returned,
\* with the shortened table when return_cycle_df asks for it (lines
\* 237-244).  return_cycle_df is an argument read nowhere else, so it is
\* chosen here.
Return ==
    /\ pc = "sim_cycles"
    /\ ind > Len(df)
    /\ \E return_cycle_df \in BOOLEAN :
          IF return_cycle_df /\ Len(df) = 0
          THEN /\ pc' = "error"
               /\ err' = "index_error"
               /\ UNCHANGED result
          ELSE /\ pc' = "done"
               /\ result' = [returned |-> TRUE, sig |-> TruncateSignal(sig),
                             with_df |-> return_cycle_df,
                             df |-> IF return_cycle_df THEN DropLast(df)
                                    ELSE << >>]
               /\ UNCHANGED err
    /\ UNCHANGED << n_samples, mean_period_samples, cycle_features_use,
                    enter_burst, leave_burst, n_tries,
                    is_oscillating, ind, cur_burst, n_try, period, amp, rdsym,
                    periods, amps, rdsyms, burst_draws, df_full, df, sig,
                    last_cycle_oscillating, features_invalid >>

Next ==
    \/ MakeIsOscStep
    \/ MakeIsOscReturn
    \/ DetermineNotOsc
    \/ DrawBurstMeans
    \/ Attempt
    \/ BuildTable
    \/ TruncateTable
    \/ SimCyclesRow
    \/ Return

Spec == Init /\ [][Next]_vars

\* ---------------------------------------------------------------- claims

\* C1: every call that returns hands back a signal of exactly
\* n_samples = floor(n_seconds * fs) samples.
C1_LengthInvariant ==
    result.returned => Len(result.sig) = n_samples

\* C2: every record stored for an oscillating slot has an integer
\* period > 0, amp > 0 and 0 < rdsym < 1; every record stored for a
\* non-oscillating slot has nan amp and rdsym.
C2_ValidRecords ==
    \A k \in 1..Len(periods) :
        IF is_oscillating[k]
        THEN periods[k] > 0 /\ Gt(amps[k], 0)
             /\ Gt(rdsyms[k], 0) /\ Lt(rdsyms[k], Den)
        ELSE IsNaN(amps[k]) /\ IsNaN(rdsyms[k])

\* The features of the final attempt that fail the validity test.
TrulyInvalid(p, a, r) ==
    (IF p <= 0 THEN {"period"} ELSE {})
    \cup (IF a <= 0 THEN {"amp"} ELSE {})
    \cup (IF r <= 0 \/ r >= Den THEN {"rdsym"} ELSE {})

\* C3: when the retry loop is exhausted, the error names exactly the
\* features that were invalid on the final attempt (period <= 0, amp <= 0,
\* rdsym <= 0 or rdsym >= 1), and so never names none.
C3_ErrorNamesEveryInvalidFeature ==
    err = "invalid_features" =>
        /\ features_invalid = TrulyInvalid(period, amp, rdsym)
        /\ features_invalid # {}

\* C5: every row of the table handed to _sim_cycles has period > 0 and the
\* only error a call ends in is the invalid-feature error.
C5_OnlyInvalidFeatureError ==
    /\ \A k \in 1..Len(df) : df[k].period > 0
    /\ err \in {"none", "invalid_features"}

\* C6: in the table before the filter, start_sample[0] = 0,
\* start_sample[k] = start_sample[k-1] + period[k-1] and start_sample is
\* non-decreasing.
C6_MonotonicOffsets ==
    Len(df_full) > 0 =>
        /\ df_full[1].start_sample = 0
        /\ \A k \in 2..Len(df_full) :
              /\ df_full[k].start_sample =
                    df_full[k-1].start_sample + df_full[k-1].period
              /\ df_full[k-1].start_sample <= df_full[k].start_sample

\* C7: with enter_burst = 1 and leave_burst = 0, whatever rand() draws from
\* [0, 1), flag 0 is false and every later flag is true.
C7_AlwaysBurstingAfterSlot0 ==
    (enter_burst = UDen /\ leave_burst = 0) =>
        /\ is_oscillating[1] = FALSE
        /\ \A i \in 2..Len(is_oscillating) : is_oscillating[i] = TRUE

\* C8: a step of _sim_cycles never fails for want of emitted samples, and
\* the only already-emitted samples it changes are zero samples of the row
\* just before the one it processes (the quiescent run the burst-entry rise
\* blends into); a burst entry adds exactly the row's period to the length.
C8_RiseOverwritesOnlyQuiescentTail ==
    [][ pc = "sim_cycles" =>
          /\ err' # "broadcast"
          /\ \A i \in 1..Len(sig) :
                sig'[i] # sig[i] =>
                   /\ sig[i].kind = "zero"
                   /\ ind > 1
                   /\ sig[i].row = df[ind - 1].index
          /\ (pc' = "sim_cycles" /\ ind' = ind + 1) =>
                Len(sig') = Len(sig) + df[ind].period ]_vars

\* A step taken inside the retry loop of oscillating slot ind.
InRetryLoop ==
    /\ pc = "determine"
    /\ ind <= Len(is_oscillating)
    /\ is_oscillating[ind] = TRUE
    /\ ~IsNaN(cur_burst["period_mean"])

\* C4: each attempt of an oscillating slot draws period, amp and rdsym; the
\* first attempt with period > 0, amp > 0 and 0 < rdsym < 1 is stored and
\* ends the slot; an invalid attempt is counted and stores nothing; the
\* error is raised exactly by the invalid attempt number n_tries, never
\* after more than n_tries attempts, and a call that raised returns nothing.
C4_RetryUntilValidOrExhausted ==
    [][ LET valid == period' > 0 /\ amp' > 0 /\ rdsym' > 0 /\ rdsym' < Den
        IN  /\ n_try <= n_tries /\ n_try' <= n_tries
            /\ (n_try > 0 /\ pc = "determine") =>
                  ~(period > 0 /\ amp > 0 /\ rdsym > 0 /\ rdsym < Den)
            /\ InRetryLoop =>
                  /\ n_try < n_tries
                  /\ valid =>
                        /\ pc' # "error"
                        /\ ind' = ind + 1
                        /\ n_try' = 0
                        /\ periods' = Append(periods, IntOfFloat(period'))
                        /\ amps' = Append(amps, amp')
                        /\ rdsyms' = Append(rdsyms, rdsym')
                  /\ ~valid =>
                        /\ n_try' = n_try + 1
                        /\ ind' = ind
                        /\ periods' = periods /\ amps' = amps
                        /\ rdsyms' = rdsyms
                        /\ (pc' = "error") = (n_try' = n_tries)
                        /\ (pc' # "error") => pc' = "determine"
            /\ (pc = "determine" /\ pc' = "error") =>
                  /\ InRetryLoop
                  /\ err' = "invalid_features"
                  /\ n_try' = n_tries
                  /\ ~valid
            /\ (pc' = "error") => result' = NoResult
            /\ (pc = "error") => pc' = "error" ]_vars

\* C4's case: n_tries = 2 attempts were made for one slot, both invalid, and
\* the call ended in the invalid-feature error without a result.
C4_Witness ==
    /\ pc = "error"
    /\ err = "invalid_features"
    /\ n_tries = 2
    /\ n_try = 2
    /\ result = NoResult

\* The number of maximal runs of true flags that start in slots 1..n.
RunsStarted(n) ==
    Cardinality({ k \in 1..n :
                    is_oscillating[k] /\ (k = 1 \/ ~is_oscillating[k-1]) })

\* The slots of the flags the feature sampler has entered so far.
SlotsEntered ==
    IF pc = "make_is_osc" THEN 0
    ELSE IF pc = "determine"
         THEN IF ind <= Len(is_oscillating) /\ is_oscillating[ind]
                 /\ IsNaN(cur_burst["period_mean"])
              THEN ind - 1 ELSE Min(ind, Len(is_oscillating))
    ELSE IF err = "invalid_features" THEN ind
    ELSE Len(is_oscillating)

\* C9: the burst-level means are drawn once per maximal run of true flags,
\* at the first true slot of the run; they are unset after every false slot
\* and set throughout a run, and no step inside a run changes them.
C9_BurstMeansOncePerRun ==
    [][ /\ burst_draws' = RunsStarted(SlotsEntered)'
        /\ (pc' = "determine" /\ ind' > 1 /\ ~is_oscillating'[ind' - 1]
              /\ ~(ind' <= Len(is_oscillating') /\ is_oscillating'[ind']))
              => cur_burst' = NoBurst
        /\ (pc' = "determine" /\ ind' > 1 /\ is_oscillating'[ind' - 1])
              => ~IsNaN(cur_burst'["period_mean"])
        /\ (pc = "determine" /\ ind <= Len(is_oscillating)
              /\ is_oscillating[ind] /\ ~IsNaN(cur_burst["period_mean"]))
              => (cur_burst' = cur_burst /\ burst_draws' = burst_draws)
        /\ (pc = "determine" /\ ind <= Len(is_oscillating)
              /\ is_oscillating[ind] /\ IsNaN(cur_burst["period_mean"]))
              => (ind = 1 \/ ~is_oscillating[ind - 1]) ]_vars

\* C9's case: the flags hold two bursts, both have been sampled, and the
\* second burst drew means of its own.
C9_Witness ==
    /\ pc = "table"
    /\ RunsStarted(Len(is_oscillating)) = 2
    /\ burst_draws = 2
    /\ \E k \in 1..Len(is_oscillating) :
          k > 1 /\ is_oscillating[k] /\ is_oscillating[k-1]

\* The sum of the periods of the first k rows of a table.
RECURSIVE SumPeriods(_, _)
SumPeriods(table, k) ==
    IF k = 0 THEN 0 ELSE SumPeriods(table, k - 1) + table[k].period

\* The table _sim_cycles is given is one C10 speaks of: no row of the table
\* built has a negative period, and its oscillating rows have 0 < rdsym < 1.
C10_Table ==
    \A k \in 1..Len(df_full) :
        /\ df_full[k].period >= 0
        /\ df_full[k].is_cycle =>
              (df_full[k].rdsym > 0 /\ df_full[k].rdsym < Den)

====
